---------------------------- MODULE Spec2Model ----------------------------
(***************************************************************************)
(* Model of the integrity-monitoring engine of src/app.py: calculate_hash, *)
(* scan_files, load_hash_db / save_hash_db, log_activity, check_integrity, *)
(* create_baseline, parse_logs and reset_logs, together with the monitored *)
(* directory, the hash database file and the log file they act on.         *)
(*                                                                         *)
(* Text.  A Python str is a sequence of tokens.  A token is a run of       *)
(* characters; the substrings the code searches for or splits on ("INFO",  *)
(* "WARNING", "ALERT", "[", "]", the newline) are tokens of their own      *)
(* wherever they occur, so `x in s` is "some token of s equals x" and      *)
(* s.split(x)[0] is the tokens before the first x.                         *)
(***************************************************************************)
EXTENDS Integers, Sequences, FiniteSets, TLC

(***************************************************************************)
(* Bounds of the model.                                                    *)
(***************************************************************************)
\* number of operations that change the folder, the hash database or the
\* log (engine calls and changes made from outside) in a run
MaxOps == 2

(***************************************************************************)
(* Text helpers.                                                           *)
(***************************************************************************)
NL == "\n"
LevelINFO == <<"INFO">>
LevelWARNING == <<"WARNING">>
LevelALERT == <<"ALERT">>

\* Python's `x in s` for a one-token needle x
Contains(s, x) == \E i \in 1..Len(s) : s[i] = x

\* index of the first occurrence of token x in s, Len(s)+1 when absent
FirstIndex(s, x) ==
    IF Contains(s, x)
    THEN CHOOSE i \in 1..Len(s) : s[i] = x /\ \A j \in 1..(i - 1) : s[j] # x
    ELSE Len(s) + 1

\* s.split(x)[0]
SplitFirst(s, x) == SubSeq(s, 1, FirstIndex(s, x) - 1)

\* s.replace(x, '')
RECURSIVE Remove(_, _)
Remove(s, x) ==
    IF s = <<>> THEN <<>>
    ELSE IF Head(s) = x THEN Remove(Tail(s), x)
    ELSE <<Head(s)>> \o Remove(Tail(s), x)

\* str(n) for a natural number below 100, as one token
IntStr(n) ==
    IF n < 10
    THEN <<"0", "1", "2", "3", "4", "5", "6", "7", "8", "9">>[n + 1]
    ELSE <<"0", "1", "2", "3", "4", "5", "6", "7", "8", "9">>[(n \div 10) + 1]
            \o <<"0", "1", "2", "3", "4", "5", "6", "7", "8", "9">>[(n % 10) + 1]

\* datetime.strftime("%Y-%m-%d %H:%M:%S") of second t (below 60) of the
\* model's clock, which starts at 2025-01-01 00:00:00
StrfTime(t) ==
    <<"2025-01-01 00:00:">> \o (IF t < 10 THEN <<"0">> ELSE <<>>) \o <<IntStr(t)>>

(***************************************************************************)
(* The monitored directory.                                                *)
(***************************************************************************)
\* names of the files that may appear in SECURE_FOLDER
FileNames == { <<"a.txt">>, <<"INFO", ".txt">> }
\* the byte strings a file may hold, numbered
Contents == {1, 2}
\* the seconds of the wall clock
Times == {0, 1}

NoFile == [exists |-> FALSE, content |-> 0, mtime |-> 0, readable |-> FALSE]
\* a file that is there: [exists |-> TRUE, content, mtime, readable]

VARIABLES
    fs,         \* SECURE_FOLDER: file name -> file state
    dirExists,  \* whether SECURE_FOLDER exists
    dbFile,     \* HASH_DB_FILE: [exists, text]
    logFile,    \* LOG_FILE: [exists, text]
    logWritable, \* whether open(LOG_FILE, 'a' or 'w') succeeds
    dbWritable, \* whether open(HASH_DB_FILE, 'w') succeeds
    run,        \* the engine call in progress, when its steps are told apart
    now,        \* the wall clock, in seconds
    ret,        \* the last engine call: its name, locals and return value
    lastOp,     \* the last operation that changed the folder or a file
    nops        \* number of such operations so far

vars == <<fs, dirExists, dbFile, logFile, logWritable, dbWritable, run, now, ret,
          lastOp, nops>>


(***************************************************************************)
(* Python values.  Optional[x] is a sequence of at most one element; a     *)
(* dict is the sequence of its items in insertion order, each item a       *)
(* record that carries its key in the field `name`.                        *)
(***************************************************************************)
None == <<>>
Some(x) == <<x>>

Keys(d) == { d[i].name : i \in 1..Len(d) }
KeySeq(d) == [i \in 1..Len(d) |-> d[i].name]
Lookup(d, k) == d[CHOOSE i \in 1..Len(d) : d[i].name = k]
\* d[k] = v on a dict: replaces the value of an existing key, else appends
SetItem(d, v) ==
    IF v.name \in Keys(d)
    THEN [i \in 1..Len(d) |-> IF d[i].name = v.name THEN v ELSE d[i]]
    ELSE Append(d, v)

\* the orders in which a set of names can be enumerated
Orders(S) ==
    { o \in [1..Cardinality(S) -> S] : \A i, j \in DOMAIN o : i # j => o[i] # o[j] }

(***************************************************************************)
(* calculate_hash                                                          *)
(***************************************************************************)
\* hashlib.sha256 over the content, hex-encoded: distinct contents have
\* distinct digests
Sha256Hex(content) == <<"sha256:", IntStr(content)>>

\* the byte length of a content: contents 2k-1 and 2k are two different
\* byte strings of length k
ContentSize(content) == (content + 1) \div 2

\* os.path.getsize
GetSize(name) == ContentSize(fs[name].content)

\* Faulty variant of CalculateHash: a file that cannot be opened hashes as if it
\* could.
CalculateHashUnguarded(name) ==
    IF fs[name].exists
    THEN Some(Sha256Hex(fs[name].content))
    ELSE None

CalculateHash(name) ==
    IF fs[name].exists /\ fs[name].readable
    THEN Some(Sha256Hex(fs[name].content))
    ELSE None

(***************************************************************************)
(* log_activity                                                            *)
(***************************************************************************)
LogEntry(t, level, message, filename) ==
    <<"[">> \o StrfTime(t) \o <<"]", " ">> \o level \o <<": ">> \o message
        \o (IF filename # <<>>
            THEN <<" (File: \"">> \o filename \o <<"\")">>
            ELSE <<>>)

\* Faulty variant of LogActivity: the file is opened with 'w' instead of 'a'.
LogActivityOverwrite(log, t, level, message, filename) ==
    [exists |-> TRUE,
     text |-> LogEntry(t, level, message, filename) \o <<NL>>]

\* the log file after open(LOG_FILE, 'a').write(log_entry + "\n")
LogActivity(log, t, level, message, filename) ==
    [exists |-> TRUE,
     text |-> log.text \o LogEntry(t, level, message, filename) \o <<NL>>]

(***************************************************************************)
(* load_hash_db / save_hash_db                                             *)
(***************************************************************************)
\* json.dump of a dict of {hash, size, modified} dicts
JsonDump(d) ==
    [kind |-> "object",
     members |-> [i \in 1..Len(d) |->
                    <<d[i].name, d[i].hash, IntStr(d[i].size), d[i].modified>>]]

\* a file content json.load raises on
Garbage == [kind |-> "garbage", members |-> <<>>]

\* the decimal number a str(n) text denotes
ParseInt(s) == CHOOSE n \in 0..99 : IntStr(n) = s

\* a file content that is JSON but no object: the text `null`
NullText == [kind |-> "null", members |-> <<>>]

\* Python's None as a value json.load returns
PyNone == "None"

\* json.load: Some(value), or None when it raises
JsonLoad(text) ==
    IF text.kind = "object"
    THEN Some([i \in 1..Len(text.members) |->
                 [name |-> text.members[i][1],
                  hash |-> text.members[i][2],
                  size |-> ParseInt(text.members[i][3]),
                  modified |-> text.members[i][4]]])
    ELSE IF text.kind = "null" THEN Some(PyNone)
    ELSE None

\* load_hash_db returns a value that is not a dict
LoadsNone(file) == file.exists /\ file.text.kind = "null"

\* load_hash_db with HASH_DB_FILE in the state `file`
LoadHashDbFrom(file) ==
    IF file.exists
    THEN IF JsonLoad(file.text) # None THEN JsonLoad(file.text)[1] ELSE <<>>
    ELSE <<>>

LoadHashDb == LoadHashDbFrom(dbFile)

\* Faulty variant of SaveHashDb: the loaded dict is updated with the snapshot instead
\* of being replaced by it, so names that left the folder stay stored.
SaveHashDbMerged(hash_db) ==
    [exists |-> TRUE,
     text |-> JsonDump(hash_db \o
                SelectSeq(LoadHashDb, LAMBDA e : e.name \notin Keys(hash_db)))]

\* Faulty variant of SaveHashDb: a hash database that is there is not overwritten.
SaveHashDbOnce(hash_db) ==
    IF dbFile.exists THEN dbFile
    ELSE [exists |-> TRUE, text |-> JsonDump(hash_db)]

\* Faulty variant of SaveHashDb: an empty snapshot is not written.
SaveHashDbSkipEmpty(hash_db) ==
    IF hash_db = <<>> THEN dbFile
    ELSE [exists |-> TRUE, text |-> JsonDump(hash_db)]

SaveHashDb(hash_db) == [exists |-> TRUE, text |-> JsonDump(hash_db)]

(***************************************************************************)
(* scan_files                                                              *)
(***************************************************************************)
\* the names os.listdir(SECURE_FOLDER) may return, in any order
ListDir == Orders({ n \in FileNames : fs[n].exists })

\* the loop of scan_files over the listing `names`
RECURSIVE ScanLoop(_, _)
ScanLoop(names, current_files) ==
    IF names = <<>> THEN current_files
    ELSE LET filename == Head(names)
             file_hash == CalculateHash(filename)
         IN  IF fs[filename].exists /\ file_hash # None /\ file_hash[1] # <<>>
             THEN ScanLoop(Tail(names),
                    SetItem(current_files,
                        [name |-> filename,
                         hash |-> file_hash[1],
                         size |-> GetSize(filename),
                         modified |-> StrfTime(fs[filename].mtime)]))
             ELSE ScanLoop(Tail(names), current_files)

ScanFiles(listing) == IF dirExists THEN ScanLoop(listing, <<>>) ELSE <<>>

(***************************************************************************)
(* check_integrity                                                         *)
(***************************************************************************)
EmptyResults == [safe |-> <<>>, modified |-> <<>>, deleted |-> <<>>, new |-> <<>>]

\* Faulty variant of CheckCurrent: the two branches of the digest comparison swapped.
CheckCurrentSwapped(st, hash_db, info, t) ==
    IF info.name \in Keys(hash_db)
    THEN IF Lookup(hash_db, info.name).hash # info.hash
         THEN [results |-> [st.results EXCEPT !.safe = Append(@, info.name)],
               log |-> LogActivity(st.log, t, LevelINFO,
                                   <<"File verified OK">>, info.name)]
         ELSE [results |-> [st.results EXCEPT !.modified = Append(@, info.name)],
               log |-> LogActivity(st.log, t, LevelWARNING,
                         <<"File integrity failed! Hash mismatch detected">>,
                         info.name)]
    ELSE [results |-> [st.results EXCEPT !.new = Append(@, info.name)],
          log |-> LogActivity(st.log, t, LevelALERT,
                    <<"Unknown file detected (new file added)">>, info.name)]

\* Faulty variant of CheckCurrent: the whole records are compared, not the digests.
CheckCurrentWholeRecord(st, hash_db, info, t) ==
    IF info.name \in Keys(hash_db)
    THEN IF Lookup(hash_db, info.name) = info
         THEN [results |-> [st.results EXCEPT !.safe = Append(@, info.name)],
               log |-> LogActivity(st.log, t, LevelINFO,
                                   <<"File verified OK">>, info.name)]
         ELSE [results |-> [st.results EXCEPT !.modified = Append(@, info.name)],
               log |-> LogActivity(st.log, t, LevelWARNING,
                         <<"File integrity failed! Hash mismatch detected">>,
                         info.name)]
    ELSE [results |-> [st.results EXCEPT !.new = Append(@, info.name)],
          log |-> LogActivity(st.log, t, LevelALERT,
                    <<"Unknown file detected (new file added)">>, info.name)]

\* Faulty variant of CheckCurrent: a digest mismatch is reported, and logged as INFO.
CheckCurrentQuiet(st, hash_db, info, t) ==
    IF info.name \in Keys(hash_db)
    THEN IF Lookup(hash_db, info.name).hash = info.hash
         THEN [results |-> [st.results EXCEPT !.safe = Append(@, info.name)],
               log |-> LogActivity(st.log, t, LevelINFO,
                                   <<"File verified OK">>, info.name)]
         ELSE [results |-> [st.results EXCEPT !.modified = Append(@, info.name)],
               log |-> LogActivity(st.log, t, LevelINFO,
                                   <<"File verified OK">>, info.name)]
    ELSE [results |-> [st.results EXCEPT !.new = Append(@, info.name)],
          log |-> LogActivity(st.log, t, LevelALERT,
                    <<"Unknown file detected (new file added)">>, info.name)]

\* the body of the loop over current_files.items(): st = [results, log]
CheckCurrent(st, hash_db, info, t) ==
    IF info.name \in Keys(hash_db)
    THEN IF Lookup(hash_db, info.name).hash = info.hash
         THEN [results |-> [st.results EXCEPT !.safe = Append(@, info.name)],
               log |-> LogActivity(st.log, t, LevelINFO,
                                   <<"File verified OK">>, info.name)]
         ELSE [results |-> [st.results EXCEPT !.modified = Append(@, info.name)],
               log |-> LogActivity(st.log, t, LevelWARNING,
                         <<"File integrity failed! Hash mismatch detected">>,
                         info.name)]
    ELSE [results |-> [st.results EXCEPT !.new = Append(@, info.name)],
          log |-> LogActivity(st.log, t, LevelALERT,
                    <<"Unknown file detected (new file added)">>, info.name)]

RECURSIVE CurrentLoop(_, _, _, _)
CurrentLoop(items, hash_db, st, t) ==
    IF items = <<>> THEN st
    ELSE CurrentLoop(Tail(items), hash_db,
                     CheckCurrent(st, hash_db, Head(items), t), t)

\* Faulty variant of CheckMissing: the test `filename not in current_files` is lost.
CheckMissingAll(st, current_files, filename, t) ==
    [results |-> [st.results EXCEPT !.deleted = Append(@, filename)],
     log |-> LogActivity(st.log, t, LevelALERT,
                         <<"File has been deleted">>, filename)]

\* Faulty variant of CheckMissing: a missing file is reported, not logged.
CheckMissingSilent(st, current_files, filename, t) ==
    IF filename \notin Keys(current_files)
    THEN [results |-> [st.results EXCEPT !.deleted = Append(@, filename)],
          log |-> st.log]
    ELSE st

\* the body of the loop over hash_db
CheckMissing(st, current_files, filename, t) ==
    IF filename \notin Keys(current_files)
    THEN [results |-> [st.results EXCEPT !.deleted = Append(@, filename)],
          log |-> LogActivity(st.log, t, LevelALERT,
                              <<"File has been deleted">>, filename)]
    ELSE st

RECURSIVE MissingLoop(_, _, _, _)
MissingLoop(names, current_files, st, t) ==
    IF names = <<>> THEN st
    ELSE MissingLoop(Tail(names), current_files,
                     CheckMissing(st, current_files, Head(names), t), t)

\* results and log file after both loops, for the baseline hash_db and the
\* snapshot current_files
Classify(hash_db, current_files, log, t) ==
    MissingLoop(KeySeq(hash_db), current_files,
        CurrentLoop(current_files, hash_db,
                    [results |-> EmptyResults, log |-> log], t),
        t)

(***************************************************************************)
(* parse_logs                                                              *)
(***************************************************************************)
\* f.readlines(): the lines of a text, each with its newline
RECURSIVE ReadLines(_)
ReadLines(text) ==
    IF text = <<>> THEN <<>>
    ELSE IF Contains(text, NL)
         THEN <<SubSeq(text, 1, FirstIndex(text, NL))>>
                  \o ReadLines(SubSeq(text, FirstIndex(text, NL) + 1, Len(text)))
         ELSE <<text>>

EmptyStats ==
    [total_logs |-> 0, info |-> 0, warning |-> 0, alert |-> 0,
     last_anomaly |-> None, recent_logs |-> <<>>]

\* the timestamp parse_logs cuts out of a line
AnomalyTime(log) == Remove(SplitFirst(log, "]"), "[")

\* Faulty variant of CountLine: three independent tests instead of if / elif.
CountLineEveryLevel(stats, log) ==
    [stats EXCEPT
       !.info = IF Contains(log, "INFO") THEN @ + 1 ELSE @,
       !.warning = IF Contains(log, "WARNING") THEN @ + 1 ELSE @,
       !.alert = IF Contains(log, "ALERT") THEN @ + 1 ELSE @,
       !.last_anomaly = IF Contains(log, "WARNING") \/ Contains(log, "ALERT")
                        THEN Some(AnomalyTime(log)) ELSE @]

\* the body of the loop over the lines
CountLine(stats, log) ==
    IF Contains(log, "INFO")
    THEN [stats EXCEPT !.info = @ + 1]
    ELSE IF Contains(log, "WARNING")
    THEN [stats EXCEPT !.warning = @ + 1, !.last_anomaly = Some(AnomalyTime(log))]
    ELSE IF Contains(log, "ALERT")
    THEN [stats EXCEPT !.alert = @ + 1, !.last_anomaly = Some(AnomalyTime(log))]
    ELSE stats

RECURSIVE CountLoop(_, _)
CountLoop(logs, stats) ==
    IF logs = <<>> THEN stats
    ELSE CountLoop(Tail(logs), CountLine(stats, Head(logs)))

Reverse(s) == [i \in 1..Len(s) |-> s[Len(s) + 1 - i]]

\* the number of lines parse_logs keeps for display
RecentCount == 10

\* logs[-10:][::-1]
Recent(logs) ==
    Reverse(SubSeq(logs,
                   IF Len(logs) > RecentCount THEN Len(logs) - RecentCount + 1 ELSE 1,
                   Len(logs)))

ParseLogs(log) ==
    IF log.exists
    THEN LET logs == ReadLines(log.text)
         IN  [CountLoop(logs, [EmptyStats EXCEPT !.total_logs = Len(logs)])
                 EXCEPT !.recent_logs = Recent(logs)]
    ELSE EmptyStats

(***************************************************************************)
(* Initial state: the application has just started (lines 16-17 have made  *)
(* the folder and the log file).  The folder holds any files; the hash     *)
(* database is absent (first run) or is what an earlier run saved for any  *)
(* earlier content of the folder.                                          *)
(***************************************************************************)
NoDb == [exists |-> FALSE, text |-> Garbage]
EmptyLog == [exists |-> TRUE, text |-> <<>>]

\* the folders of a start: every file, if there, readable and last written
\* at second 0
StartFolders ==
    [FileNames -> {NoFile} \cup [exists : {TRUE}, content : Contents,
                                 mtime : {0}, readable : {TRUE}]]

\* the snapshot scan_files takes of folder f listed in the order `listing`
SnapshotOf(f, listing) ==
    [i \in 1..Len(listing) |->
        [name |-> listing[i],
         hash |-> Sha256Hex(f[listing[i]].content),
         size |-> ContentSize(f[listing[i]].content),
         modified |-> StrfTime(f[listing[i]].mtime)]]

\* the hash databases an earlier run may have left
StartDbs ==
    {NoDb} \cup
    { [exists |-> TRUE, text |-> JsonDump(SnapshotOf(f, listing))] :
        <<f, listing>> \in
            UNION { {f} \X Orders({ n \in FileNames : f[n].exists }) :
                    f \in StartFolders } }

\* no engine call is in progress
Idle ==
    [pc |-> "idle", op |-> "none", hash_db |-> <<>>, names |-> <<>>,
     current_files |-> <<>>, results |-> EmptyResults, db0 |-> NoDb,
     nlines |-> 0]

Init ==
    /\ fs \in StartFolders
    /\ dirExists = TRUE
    /\ dbFile \in StartDbs
    /\ logFile = EmptyLog
    /\ logWritable = TRUE
    /\ dbWritable = TRUE
    /\ run = Idle
    /\ now = 0
    /\ ret = [op |-> "none"]
    /\ lastOp = "start"
    /\ nops = 0

\* bookkeeping of an operation that changes the folder or a file: it counts
\* towards the bound of the run and becomes the last change
Change(op, r) ==
    /\ nops < MaxOps
    /\ nops' = nops + 1
    /\ lastOp' = op
    /\ ret' = r

\* bookkeeping of a call that only reads
Read(r) ==
    /\ ret' = r
    /\ UNCHANGED <<lastOp, nops>>

NoResult == [op |-> "none"]

(***************************************************************************)
(* The engine's operations.                                                *)
(***************************************************************************)
\* the record of a call that raised at line `line` of the source
Raised(op, line) == [op |-> op, after |-> lastOp, raised |-> TRUE, at |-> line]

CheckIntegrity ==
    \E listing \in ListDir :
        LET current_files == ScanFiles(listing)
        IN  IF LoadsNone(dbFile)
            THEN \* `filename in hash_db` (line 87) or, for an empty snapshot,
                 \* `for filename in hash_db` (line 99) raises TypeError
                 /\ Change("check_integrity_raised",
                           Raised("check_integrity",
                                  IF current_files # <<>> THEN 87 ELSE 99))
                 /\ UNCHANGED <<fs, dirExists, dbFile, logFile, logWritable,
                                dbWritable, run, now>>
            ELSE
              LET hash_db == LoadHashDb
                  st == Classify(hash_db, current_files, logFile, now)
              IN  IF st.log # logFile /\ ~logWritable
                  THEN \* the first log_activity raises in open (line 37)
                       /\ Change("check_integrity_raised",
                                 Raised("check_integrity", 37))
                       /\ UNCHANGED <<fs, dirExists, dbFile, logFile,
                                      logWritable, dbWritable, run, now>>
                  ELSE IF ~dbWritable
                  THEN \* save_hash_db raises in open (line 54)
                       /\ logFile' = st.log
                       /\ Change("check_integrity_raised",
                                 Raised("check_integrity", 54))
                       /\ UNCHANGED <<fs, dirExists, dbFile, logWritable,
                                      dbWritable, run, now>>
                  ELSE /\ logFile' = st.log
                       /\ dbFile' = SaveHashDb(current_files)
                       /\ Change("check_integrity",
                              [op |-> "check_integrity", after |-> lastOp,
                               raised |-> FALSE,
                               hash_db |-> hash_db,
                               current_files |-> current_files,
                               results |-> st.results])
                       /\ UNCHANGED <<fs, dirExists, logWritable, dbWritable,
                                      run, now>>

\* Faulty variant of CreateBaseline: the snapshot is counted and logged, not saved.
CreateBaselineNoSave ==
    \E listing \in ListDir :
        LET current_files == ScanFiles(listing)
        IN  /\ logFile' = LogActivity(logFile, now, LevelINFO,
                   <<"Baseline created for ", IntStr(Len(current_files)),
                     " files">>, <<>>)
            /\ Change("create_baseline",
                      [op |-> "create_baseline", after |-> lastOp,
                       raised |-> FALSE,
                       current_files |-> current_files,
                       count |-> Len(current_files)])
            /\ UNCHANGED <<fs, dirExists, dbFile, logWritable, dbWritable, run,
                           now>>

\* Faulty variant of CreateBaseline: every file of the snapshot is logged as well.
CreateBaselinePerFile ==
    \E listing \in ListDir :
        LET current_files == ScanFiles(listing)
        IN  /\ dbFile' = SaveHashDb(current_files)
            /\ logFile' = LogActivity(
                   CurrentLoop(current_files, <<>>,
                       [results |-> EmptyResults, log |-> logFile], now).log,
                   now, LevelINFO,
                   <<"Baseline created for ", IntStr(Len(current_files)),
                     " files">>, <<>>)
            /\ Change("create_baseline",
                      [op |-> "create_baseline", after |-> lastOp,
                       raised |-> FALSE,
                       current_files |-> current_files,
                       count |-> Len(current_files)])
            /\ UNCHANGED <<fs, dirExists, logWritable, dbWritable, run, now>>

CreateBaseline ==
    \E listing \in ListDir :
        LET current_files == ScanFiles(listing)
        IN  IF ~dbWritable
            THEN \* save_hash_db raises in open (line 54)
                 /\ Change("create_baseline_raised",
                           Raised("create_baseline", 54))
                 /\ UNCHANGED <<fs, dirExists, dbFile, logFile, logWritable,
                                dbWritable, run, now>>
            ELSE IF ~logWritable
            THEN \* log_activity raises in open (line 37), after the save
                 /\ dbFile' = SaveHashDb(current_files)
                 /\ Change("create_baseline_raised",
                           Raised("create_baseline", 37))
                 /\ UNCHANGED <<fs, dirExists, logFile, logWritable,
                                dbWritable, run, now>>
            ELSE /\ dbFile' = SaveHashDb(current_files)
                 /\ logFile' = LogActivity(logFile, now, LevelINFO,
                        <<"Baseline created for ", IntStr(Len(current_files)),
                          " files">>, <<>>)
                 /\ Change("create_baseline",
                           [op |-> "create_baseline", after |-> lastOp,
                            raised |-> FALSE,
                            current_files |-> current_files,
                            count |-> Len(current_files)])
                 /\ UNCHANGED <<fs, dirExists, logWritable, dbWritable, run,
                                now>>

\* Faulty variant of ResetLogs: the hash database is removed together with the log.
ResetLogsAndDb ==
    /\ logFile' = LogActivity(EmptyLog, now, LevelINFO,
                              <<"Log system has been reset">>, <<>>)
    /\ dbFile' = NoDb
    /\ Change("reset_logs",
              [op |-> "reset_logs", after |-> lastOp, raised |-> FALSE,
               ok |-> TRUE])
    /\ UNCHANGED <<fs, dirExists, logWritable, dbWritable, run, now>>

\* Faulty variant of ResetLogs: the entry is appended, the file is not emptied first.
ResetLogsNoTruncate ==
    /\ logFile' = LogActivity(logFile, now, LevelINFO,
                              <<"Log system has been reset">>, <<>>)
    /\ Change("reset_logs",
              [op |-> "reset_logs", after |-> lastOp, raised |-> FALSE,
               ok |-> TRUE])
    /\ UNCHANGED <<fs, dirExists, dbFile, logWritable, dbWritable, run, now>>

ResetLogs ==
    IF ~logWritable
    THEN \* open(LOG_FILE, 'w') raises, the except branch returns False
         /\ Change("reset_logs_failed",
                   [op |-> "reset_logs", after |-> lastOp, raised |-> FALSE,
                    ok |-> FALSE])
         /\ UNCHANGED <<fs, dirExists, dbFile, logFile, logWritable,
                        dbWritable, run, now>>
    ELSE /\ logFile' = LogActivity(EmptyLog, now, LevelINFO,
                                   <<"Log system has been reset">>, <<>>)
         /\ Change("reset_logs",
                   [op |-> "reset_logs", after |-> lastOp, raised |-> FALSE,
                    ok |-> TRUE])
         /\ UNCHANGED <<fs, dirExists, dbFile, logWritable, dbWritable, run,
                        now>>

ParseLogsCall ==
    /\ Read([op |-> "parse_logs", after |-> lastOp, raised |-> FALSE,
             stats |-> ParseLogs(logFile)])
    /\ UNCHANGED <<fs, dirExists, dbFile, logFile, logWritable, dbWritable,
                   run, now>>

ScanFilesCall ==
    \E listing \in ListDir :
        /\ Read([op |-> "scan_files", after |-> lastOp, raised |-> FALSE,
                 current_files |-> ScanFiles(listing)])
        /\ UNCHANGED <<fs, dirExists, dbFile, logFile, logWritable,
                       dbWritable, run, now>>

LoadHashDbCall ==
    /\ Read([op |-> "load_hash_db", after |-> lastOp, raised |-> FALSE,
             hash_db |-> LoadHashDb])
    /\ UNCHANGED <<fs, dirExists, dbFile, logFile, logWritable, dbWritable,
                   run, now>>

(***************************************************************************)
(* The environment: the operator and other programs change the monitored   *)
(* folder and the log file, and time passes.                               *)
(***************************************************************************)
\* a file is created or its content replaced
WriteFile ==
    \E n \in FileNames, c \in Contents :
        /\ dirExists
        /\ fs[n].exists => fs[n].content # c
        /\ fs' = [fs EXCEPT ![n] =
                    [exists |-> TRUE, content |-> c, mtime |-> now,
                     readable |-> IF fs[n].exists THEN fs[n].readable ELSE TRUE]]
        /\ Change("write_file", NoResult)
        /\ UNCHANGED <<dirExists, dbFile, logFile, now,
                       logWritable, dbWritable, run>>

\* touch / re-save with the same bytes: only the modification time changes
TouchFile ==
    \E n \in FileNames :
        /\ fs[n].exists
        /\ fs[n].mtime # now
        /\ fs' = [fs EXCEPT ![n].mtime = now]
        /\ Change("touch_file", NoResult)
        /\ UNCHANGED <<dirExists, dbFile, logFile, now,
                       logWritable, dbWritable, run>>

DeleteFile ==
    \E n \in FileNames :
        /\ fs[n].exists
        /\ fs' = [fs EXCEPT ![n] = NoFile]
        /\ Change("delete_file", NoResult)
        /\ UNCHANGED <<dirExists, dbFile, logFile, now,
                       logWritable, dbWritable, run>>

\* the read permission of a file is taken away or given back
ChmodFile ==
    \E n \in FileNames :
        /\ fs[n].exists
        /\ fs' = [fs EXCEPT ![n].readable = ~@]
        /\ Change("chmod_file", NoResult)
        /\ UNCHANGED <<dirExists, dbFile, logFile, now,
                       logWritable, dbWritable, run>>

\* the monitored folder is removed with all it holds
RemoveDir ==
    /\ dirExists
    /\ dirExists' = FALSE
    /\ fs' = [n \in FileNames |-> NoFile]
    /\ Change("remove_dir", NoResult)
    /\ UNCHANGED <<dbFile, logFile, now,
                   logWritable, dbWritable, run>>

\* os.makedirs(SECURE_FOLDER, exist_ok=True) of a later start
MakeDir ==
    /\ ~dirExists
    /\ dirExists' = TRUE
    /\ Change("make_dir", NoResult)
    /\ UNCHANGED <<fs, dbFile, logFile, now,
                   logWritable, dbWritable, run>>

\* the log file is removed
DeleteLog ==
    /\ logFile.exists
    /\ logFile' = [exists |-> FALSE, text |-> <<>>]
    /\ Change("delete_log", NoResult)
    /\ UNCHANGED <<fs, dirExists, dbFile, now,
                   logWritable, dbWritable, run>>

\* a line none of the engine's operations wrote: another program appends a
\* line without a level to LOG_FILE
ForeignLine == <<"-- rotated --", NL>>

AppendForeign ==
    /\ logFile.exists
    /\ logFile' = [logFile EXCEPT !.text = @ \o ForeignLine]
    /\ Change("append_foreign", NoResult)
    /\ UNCHANGED <<fs, dirExists, dbFile, now, logWritable, dbWritable, run>>

Tick ==
    /\ now + 1 \in Times
    /\ now' = now + 1
    /\ UNCHANGED <<fs, dirExists, dbFile, logFile, ret, lastOp, nops,
                   logWritable, dbWritable, run>>

Next ==
    \/ CheckIntegrity
    \/ CreateBaseline
    \/ ResetLogs
    \/ ParseLogsCall
    \/ ScanFilesCall
    \/ LoadHashDbCall
    \/ WriteFile
    \/ TouchFile
    \/ DeleteFile
    \/ Tick

Spec == Init /\ [][Next]_vars

(***************************************************************************)
(* The same engine in an environment with faults: the hash database may be *)
(* unreadable or hold no object at the start, files lose and regain their  *)
(* read permission, the folder and the log file are removed, another       *)
(* program writes to the log file.                                         *)
(***************************************************************************)
InitFaults ==
    /\ fs \in StartFolders
    /\ dirExists = TRUE
    /\ dbFile \in StartDbs \cup {[exists |-> TRUE, text |-> Garbage],
                                [exists |-> TRUE, text |-> NullText]}
    /\ logFile = EmptyLog
    /\ logWritable = TRUE
    /\ dbWritable = TRUE
    /\ run = Idle
    /\ now = 0
    /\ ret = [op |-> "none"]
    /\ lastOp = "start"
    /\ nops = 0

NextFaults ==
    \/ CheckIntegrity
    \/ CreateBaseline
    \/ ResetLogs
    \/ ParseLogsCall
    \/ ScanFilesCall
    \/ LoadHashDbCall
    \/ DeleteFile
    \/ ChmodFile
    \/ RemoveDir
    \/ MakeDir
    \/ DeleteLog
    \/ AppendForeign

SpecFaults == InitFaults /\ [][NextFaults]_vars

(***************************************************************************)
(* The engine where the log file and the hash database lose and regain     *)
(* their write permission.                                                 *)
(***************************************************************************)
ChmodLog ==
    /\ logWritable' = ~logWritable
    /\ Change("chmod_log", NoResult)
    /\ UNCHANGED <<fs, dirExists, dbFile, logFile, now, dbWritable, run>>

ChmodDb ==
    /\ dbWritable' = ~dbWritable
    /\ Change("chmod_db", NoResult)
    /\ UNCHANGED <<fs, dirExists, dbFile, logFile, now, logWritable, run>>

NextPerms ==
    \/ CheckIntegrity
    \/ CreateBaseline
    \/ ResetLogs
    \/ ParseLogsCall
    \/ ScanFilesCall
    \/ LoadHashDbCall
    \/ ChmodLog
    \/ ChmodDb
    \/ Tick

SpecPerms == Init /\ [][NextPerms]_vars

(***************************************************************************)
(* The engine call by call and line by line.  One caller runs              *)
(* check_integrity or create_baseline; `run` holds its position and its    *)
(* locals: hash_db, the listing still to scan, current_files, results, and *)
(* for the record the hash database file and the number of log lines it    *)
(* found when it started.  Between two of its steps the folder changes,    *)
(* the log file loses or regains its write permission, another session     *)
(* calls load_hash_db, or the process is killed.  The hash database holds  *)
(* an object or nothing when the call starts.                              *)
(***************************************************************************)
\* the position after scan_files has returned
AfterScan(op) == IF op = "check_integrity" THEN "classify" ELSE "save"

\* line 75: hash_db = load_hash_db()
StartCheck ==
    /\ run.pc = "idle"
    /\ run' = [Idle EXCEPT !.pc = "scan", !.op = "check_integrity",
                           !.hash_db = LoadHashDb, !.db0 = dbFile,
                           !.nlines = Len(ReadLines(logFile.text))]
    /\ Change("check_integrity", NoResult)
    /\ UNCHANGED <<fs, dirExists, dbFile, logFile, now, logWritable,
                   dbWritable>>

\* line 142: create_baseline enters scan_files
StartBaseline ==
    /\ run.pc = "idle"
    /\ run' = [Idle EXCEPT !.pc = "scan", !.op = "create_baseline",
                           !.db0 = dbFile,
                           !.nlines = Len(ReadLines(logFile.text))]
    /\ Change("create_baseline", NoResult)
    /\ UNCHANGED <<fs, dirExists, dbFile, logFile, now, logWritable,
                   dbWritable>>

\* lines 59-61: os.path.exists and os.listdir
ListStep ==
    /\ run.pc = "scan"
    /\ \E listing \in ListDir :
          run' = IF dirExists
                 THEN [run EXCEPT !.pc = "hash", !.names = listing]
                 ELSE [run EXCEPT !.pc = AfterScan(run.op)]
    /\ UNCHANGED <<fs, dirExists, dbFile, logFile, now, ret, lastOp, nops,
                   logWritable, dbWritable>>

\* lines 61-70: one turn of the loop of scan_files, or its end
HashStep ==
    /\ run.pc = "hash"
    /\ run' = IF run.names = <<>>
              THEN [run EXCEPT !.pc = AfterScan(run.op)]
              ELSE [run EXCEPT
                      !.names = Tail(@),
                      !.current_files = ScanLoop(<<Head(run.names)>>, @)]
    /\ UNCHANGED <<fs, dirExists, dbFile, logFile, now, ret, lastOp, nops,
                   logWritable, dbWritable>>

\* lines 78-102: both loops of check_integrity
ClassifyStep ==
    /\ run.pc = "classify"
    /\ LET st == Classify(run.hash_db, run.current_files, logFile, now)
       IN  IF st.log # logFile /\ ~logWritable
           THEN \* the first log_activity raises in open (line 37)
                /\ run' = Idle
                /\ ret' = Raised("check_integrity", 37)
                /\ UNCHANGED logFile
           ELSE /\ run' = [run EXCEPT !.pc = "save", !.results = st.results]
                /\ logFile' = st.log
                /\ UNCHANGED ret
    /\ UNCHANGED <<fs, dirExists, dbFile, now, lastOp, nops, logWritable,
                   dbWritable>>

\* line 54: open(HASH_DB_FILE, 'w') empties the file
SaveOpen ==
    /\ run.pc = "save"
    /\ IF ~dbWritable
       THEN /\ run' = Idle
            /\ ret' = Raised(run.op, 54)
            /\ UNCHANGED dbFile
       ELSE /\ run' = [run EXCEPT !.pc = "dump"]
            /\ dbFile' = [exists |-> TRUE, text |-> Garbage]
            /\ UNCHANGED ret
    /\ UNCHANGED <<fs, dirExists, logFile, now, lastOp, nops, logWritable,
                   dbWritable>>

\* line 55: json.dump and the close of the file; check_integrity returns
SaveWrite ==
    /\ run.pc = "dump"
    /\ dbFile' = SaveHashDb(run.current_files)
    /\ IF run.op = "check_integrity"
       THEN /\ run' = Idle
            /\ ret' = [op |-> "check_integrity", after |-> lastOp,
                       raised |-> FALSE, hash_db |-> run.hash_db,
                       current_files |-> run.current_files,
                       results |-> run.results]
       ELSE /\ run' = [run EXCEPT !.pc = "log"]
            /\ UNCHANGED ret
    /\ UNCHANGED <<fs, dirExists, logFile, now, lastOp, nops, logWritable,
                   dbWritable>>

\* lines 144-145: create_baseline logs and returns
BaselineLog ==
    /\ run.pc = "log"
    /\ run' = Idle
    /\ IF ~logWritable
       THEN /\ ret' = Raised("create_baseline", 37)
            /\ UNCHANGED logFile
       ELSE /\ logFile' = LogActivity(logFile, now, LevelINFO,
                   <<"Baseline created for ", IntStr(Len(run.current_files)),
                     " files">>, <<>>)
            /\ ret' = [op |-> "create_baseline", after |-> lastOp,
                       raised |-> FALSE,
                       current_files |-> run.current_files,
                       count |-> Len(run.current_files)]
    /\ UNCHANGED <<fs, dirExists, dbFile, now, lastOp, nops, logWritable,
                   dbWritable>>

\* the process dies in the middle of the call: the files stay as they are
Kill ==
    /\ run.pc # "idle"
    /\ run' = Idle
    /\ ret' = [op |-> "killed", at |-> run.pc,
               old |-> LoadHashDbFrom(run.db0), new |-> run.current_files]
    /\ UNCHANGED <<fs, dirExists, dbFile, logFile, now, lastOp, nops,
                   logWritable, dbWritable>>

NextSteps ==
    \/ StartCheck
    \/ StartBaseline
    \/ ListStep
    \/ HashStep
    \/ ClassifyStep
    \/ SaveOpen
    \/ SaveWrite
    \/ BaselineLog
    \/ Kill
    \/ LoadHashDbCall
    \/ WriteFile
    \/ DeleteFile
    \/ ChmodLog

SpecSteps == Init /\ [][NextSteps]_vars

(***************************************************************************)
(* Vocabulary of the properties.                                           *)
(***************************************************************************)
Range(q) == { q[i] : i \in 1..Len(q) }
NoDuplicates(q) == \A i, j \in 1..Len(q) : i # j => q[i] # q[j]
IsPrefix(p, q) == Len(p) <= Len(q) /\ SubSeq(q, 1, Len(p)) = p

\* the last engine call was a check_integrity, and nothing changed since
Checked == ret.op = "check_integrity" /\ ~ret.raised
\* the names of the files scan_files can read in the folder now
Readable == { n \in FileNames : dirExists /\ fs[n].exists /\ fs[n].readable }
\* the names whose digest differs between baseline B and snapshot S
Differing(B, S) ==
    { n \in Keys(B) \cap Keys(S) : Lookup(B, n).hash # Lookup(S, n).hash }

(***************************************************************************)
(* C1.  create_baseline() followed by check_integrity(), with no change of *)
(* the folder in between, returns safe = all the scanned file names (which *)
(* are the readable files of the folder) and modified, new and deleted     *)
(* empty.                                                                  *)
(***************************************************************************)
C1_BaselineThenCheckAllSafe ==
    (Checked /\ ret.after = "create_baseline") =>
        /\ Range(ret.results.safe) = Keys(ret.current_files)
        /\ Range(ret.results.safe) = Readable
        /\ ret.results.modified = <<>>
        /\ ret.results.new = <<>>
        /\ ret.results.deleted = <<>>

C1_Witness ==
    /\ Checked
    /\ ret.after = "create_baseline"
    /\ Len(ret.results.safe) = 2

(***************************************************************************)
(* C2.  check_integrity() classifies every name by the baseline B it       *)
(* loaded and the snapshot S of the folder: in S and B with equal digests  *)
(* -> safe, in S and B with different digests -> modified, in S only ->    *)
(* new, in B only -> deleted.  In particular, when S and B hold the same   *)
(* names and exactly one digest differs, that file alone is modified and   *)
(* all the others are safe; when S is B plus (minus) one file, that file   *)
(* alone is new (deleted) and the other drift lists are empty.             *)
(***************************************************************************)
C2_Classification ==
    Checked =>
        LET B == ret.hash_db
            S == ret.current_files
            r == ret.results
        IN  /\ \A n \in Keys(S) :
                   Lookup(S, n).hash = Sha256Hex(fs[n].content)
            /\ Keys(S) = Readable
            /\ Range(r.safe) = (Keys(S) \cap Keys(B)) \ Differing(B, S)
            /\ Range(r.modified) = Differing(B, S)
            /\ Range(r.new) = Keys(S) \ Keys(B)
            /\ Range(r.deleted) = Keys(B) \ Keys(S)
            /\ \A n \in FileNames :
                 /\ (Keys(S) = Keys(B) /\ Differing(B, S) = {n}) =>
                        /\ r.modified = <<n>>
                        /\ Range(r.safe) = Keys(S) \ {n}
                 /\ (n \notin Keys(B) /\ Keys(S) = Keys(B) \cup {n}
                        /\ Differing(B, S) = {}) =>
                        /\ r.new = <<n>>
                        /\ r.modified = <<>> /\ r.deleted = <<>>
                 /\ (n \notin Keys(S) /\ Keys(B) = Keys(S) \cup {n}
                        /\ Differing(B, S) = {}) =>
                        /\ r.deleted = <<n>>
                        /\ r.modified = <<>> /\ r.new = <<>>

\* a check that found one file modified and the other one safe
C2_Witness ==
    /\ Checked
    /\ Len(ret.results.modified) = 1
    /\ Len(ret.results.safe) = 1
    /\ Keys(ret.hash_db) = Keys(ret.current_files)

(***************************************************************************)
(* C3.  The four lists check_integrity() returns are pairwise disjoint,    *)
(* hold no name twice, and together hold exactly the names of the snapshot *)
(* and of the baseline loaded by that check.                               *)
(***************************************************************************)
C3_Partition ==
    Checked =>
        LET r == ret.results
            all == r.safe \o r.modified \o r.new \o r.deleted
        IN  /\ NoDuplicates(all)
            /\ Range(all) = Keys(ret.current_files) \cup Keys(ret.hash_db)

\* a check with a deleted file and another, present one
C3_Witness ==
    /\ Checked
    /\ Len(ret.results.deleted) = 1
    /\ Len(ret.current_files) = 1

(***************************************************************************)
(* C4.  Classification looks at the digests only.  A file in baseline and  *)
(* snapshot whose digest is the same is safe and not modified, also when   *)
(* its size or modification time differs between the two (touch, re-save   *)
(* of the same bytes); and the check returns what it would return had all  *)
(* the records of baseline and snapshot the same size and modification     *)
(* time.                                                                   *)
(***************************************************************************)
\* the records of d with size and modification time erased
DigestsOnly(d) ==
    [i \in 1..Len(d) |-> [d[i] EXCEPT !.size = 0, !.modified = <<>>]]

C4_DigestOnly ==
    Checked =>
        LET B == ret.hash_db
            S == ret.current_files
        IN  /\ \A n \in Keys(B) \cap Keys(S) :
                   Lookup(B, n).hash = Lookup(S, n).hash =>
                       /\ n \in Range(ret.results.safe)
                       /\ n \notin Range(ret.results.modified)
            /\ ret.results =
                   Classify(DigestsOnly(B), DigestsOnly(S), EmptyLog, 0).results

\* a check of a file touched since the baseline: same digest, other time
C4_Witness ==
    /\ Checked
    /\ \E n \in Keys(ret.hash_db) \cap Keys(ret.current_files) :
          /\ Lookup(ret.hash_db, n).hash = Lookup(ret.current_files, n).hash
          /\ Lookup(ret.hash_db, n).modified # Lookup(ret.current_files, n).modified
          /\ n \in Range(ret.results.safe)

(***************************************************************************)
(* C5.  When check_integrity() has returned, the persisted baseline is     *)
(* exactly the snapshot S the check classified, whatever the baseline was  *)
(* before: the names reported deleted are gone, the names reported new or  *)
(* modified are stored with their current digest.                          *)
(***************************************************************************)
C5_BaselineIsSnapshot ==
    Checked =>
        /\ dbFile.exists
        /\ LoadHashDb = ret.current_files
        /\ \A n \in Range(ret.results.deleted) : n \notin Keys(LoadHashDb)
        /\ \A n \in Range(ret.results.new) \cup Range(ret.results.modified) :
              /\ n \in Keys(LoadHashDb)
              /\ Lookup(LoadHashDb, n).hash = Sha256Hex(fs[n].content)

\* a check that dropped a deleted file from, and stored a modified file in,
\* the baseline
C5_Witness ==
    /\ Checked
    /\ Len(ret.results.deleted) = 1
    /\ Len(ret.results.modified) = 1

(***************************************************************************)
(* The audit entries of a log text, read by the format log_activity        *)
(* writes: "[", timestamp, "]", " ", level, ": ", message, ...  The        *)
(* timestamp holds no "]", so the first "]" of a line closes it.           *)
(***************************************************************************)
LinesOf(log) == ReadLines(log.text)
Lines == LinesOf(logFile)
TimestampOf(line) == SubSeq(line, 2, FirstIndex(line, "]") - 1)
LevelOf(line) == line[FirstIndex(line, "]") + 2]
HasFilename(line) == Contains(line, " (File: \"")
EntriesOfLevel(lines, level) == { i \in 1..Len(lines) : LevelOf(lines[i]) = level }

(***************************************************************************)
(* C6.  create_baseline() replaces the persisted baseline by the snapshot  *)
(* of the folder, whatever the baseline was; appends exactly one line to   *)
(* the log, an INFO entry "Baseline created for N files" without a file    *)
(* name; and returns N, the number of records it saved.                    *)
(***************************************************************************)
BaselineStep == ret'.op = "create_baseline" /\ nops' = nops + 1

\* what a create_baseline step must have done, given the database `saved`
\* it left, the lines `before` it found in the log, the lines `after` it left
\* there, the second `t` of the step and the value `count` it returned
BaselineDone(saved, before, after, t, count) ==
    /\ Keys(saved) = Readable
    /\ \A n \in Readable : Lookup(saved, n).hash = Sha256Hex(fs[n].content)
    /\ count = Len(saved)
    /\ Len(after) = Len(before) + 1
    /\ IsPrefix(before, after)
    /\ LevelOf(after[Len(after)]) = "INFO"
    /\ ~HasFilename(after[Len(after)])
    /\ after[Len(after)] =
           LogEntry(t, LevelINFO,
               <<"Baseline created for ", IntStr(count), " files">>, <<>>)
             \o <<NL>>

C6_CreateBaseline ==
    [][BaselineStep =>
        /\ dbFile'.exists
        /\ LoadHashDbFrom(dbFile') = ret'.current_files
        /\ \A saved \in {LoadHashDbFrom(dbFile')} :
           \A before \in {LinesOf(logFile)} :
           \A after \in {LinesOf(logFile')} :
              BaselineDone(saved, before, after, now, ret'.count)
      ]_vars

\* a baseline of one file taken over an earlier baseline and a written log
C6_Witness ==
    /\ ret.op = "create_baseline"
    /\ ret.after = "check_integrity"
    /\ ret.count = 1
    /\ Len(Lines) >= 2

(***************************************************************************)
(* C7.  The audit log is append-only: every step other than reset_logs()   *)
(* leaves the lines the log held as a prefix of the lines it holds after.  *)
(***************************************************************************)
ResetStep == lastOp' = "reset_logs" /\ nops' = nops + 1

C7_AppendOnly ==
    [][(~ResetStep /\ logFile' # logFile) =>
        /\ logFile'.exists
        /\ IsPrefix(logFile.text, logFile'.text)
        /\ IsPrefix(LinesOf(logFile), LinesOf(logFile'))
      ]_vars

\* a check that added its lines to a log that held a line already
C7_Witness ==
    /\ Checked
    /\ Len(Lines) > Len(ret.results.safe) + Len(ret.results.modified)
                      + Len(ret.results.new) + Len(ret.results.deleted)
    /\ Len(ret.current_files) >= 1

(***************************************************************************)
(* C8.  After reset_logs() the log is exactly one line, the INFO entry of  *)
(* the reset, whatever it held before; a parse_logs() that follows reports *)
(* total_logs = 1, info = 1, warning = 0, alert = 0 and no last anomaly.   *)
(***************************************************************************)
C8_ResetThenParse ==
    /\ lastOp = "reset_logs" =>
          /\ logFile.exists
          /\ Len(Lines) = 1
          /\ \E t \in Times :
                logFile.text = LogEntry(t, LevelINFO,
                                 <<"Log system has been reset">>, <<>>) \o <<NL>>
    /\ (ret.op = "parse_logs" /\ ret.after = "reset_logs") =>
          /\ ret.stats.total_logs = 1
          /\ ret.stats.info = 1
          /\ ret.stats.warning = 0
          /\ ret.stats.alert = 0
          /\ ret.stats.last_anomaly = None
          /\ ret.stats.recent_logs = Lines

\* parse_logs after a reset that followed an earlier operation
C8_Witness ==
    /\ ret.op = "parse_logs"
    /\ ret.after = "reset_logs"
    /\ nops = 2

(***************************************************************************)
(* C9.  For every log the engine wrote, parse_logs() reports as info,      *)
(* warning and alert the numbers of entries logged with level INFO,        *)
(* WARNING and ALERT, and as total_logs the number of entries; an entry of *)
(* level WARNING or ALERT counts as such also when "INFO" occurs elsewhere *)
(* in its line, for instance in the file name.                             *)
(***************************************************************************)
C9_CountsByLevel ==
    ret.op = "parse_logs" =>
        /\ ret.stats.total_logs = Len(Lines)
        /\ ret.stats.info = Cardinality(EntriesOfLevel(Lines, "INFO"))
        /\ ret.stats.warning = Cardinality(EntriesOfLevel(Lines, "WARNING"))
        /\ ret.stats.alert = Cardinality(EntriesOfLevel(Lines, "ALERT"))

(***************************************************************************)
(* C10.  parse_logs() reports as last_anomaly the timestamp of the last    *)
(* entry of level WARNING or ALERT in the log, and None exactly when the   *)
(* log is missing, empty or holds no such entry.                           *)
(***************************************************************************)
Anomalies(lines) ==
    EntriesOfLevel(lines, "WARNING") \cup EntriesOfLevel(lines, "ALERT")

C10_LastAnomaly ==
    ret.op = "parse_logs" =>
        ret.stats.last_anomaly =
            IF ~logFile.exists \/ Anomalies(Lines) = {}
            THEN None
            ELSE Some(TimestampOf(
                     Lines[CHOOSE i \in Anomalies(Lines) :
                             \A j \in Anomalies(Lines) : j <= i]))

(***************************************************************************)
(* C11.  A check_integrity() that returns appends to the log exactly one   *)
(* entry for every name of the snapshot or of the baseline, with that file *)
(* name and the level of its classification (safe INFO, modified WARNING,  *)
(* new ALERT, deleted ALERT), and nothing else: the number of lines added  *)
(* is |safe| + |modified| + |new| + |deleted|.                             *)
(***************************************************************************)
CheckStep ==
    ret'.op = "check_integrity" /\ nops' = nops + 1 /\ ~ret'.raised

\* the file name an entry carries
FilenameOf(line) ==
    SubSeq(line, FirstIndex(line, " (File: \"") + 1,
                 FirstIndex(line, "\")") - 1)

LevelFor(r, n) ==
    IF n \in Range(r.safe) THEN "INFO"
    ELSE IF n \in Range(r.modified) THEN "WARNING"
    ELSE "ALERT"

\* what the lines `added` by a check with result r must be, for the names
\* `names` of its snapshot and baseline
EntriesDone(added, r, names) ==
    /\ Len(added) = Len(r.safe) + Len(r.modified) + Len(r.new) + Len(r.deleted)
    /\ \A i \in 1..Len(added) :
          /\ HasFilename(added[i])
          /\ FilenameOf(added[i]) \in names
    /\ \A n \in names :
          /\ Cardinality({ i \in 1..Len(added) : FilenameOf(added[i]) = n }) = 1
          /\ \A i \in 1..Len(added) :
                FilenameOf(added[i]) = n => LevelOf(added[i]) = LevelFor(r, n)

C11_OneEntryPerName ==
    [][CheckStep =>
        \A before \in {LinesOf(logFile)} :
        \A after \in {LinesOf(logFile')} :
           /\ IsPrefix(before, after)
           /\ EntriesDone(SubSeq(after, Len(before) + 1, Len(after)),
                          ret'.results,
                          Keys(ret'.current_files) \cup Keys(ret'.hash_db))
      ]_vars

\* a check that logged a new file and a deleted one, and nothing more
C11_Witness ==
    /\ Checked
    /\ Len(ret.results.new) = 1
    /\ Len(ret.results.deleted) = 1
    /\ Len(Lines) = 2
    /\ LevelOf(Lines[1]) = "ALERT"
    /\ LevelOf(Lines[2]) = "ALERT"

(***************************************************************************)
(* C12.  A hash database that is missing, or whose content is unreadable   *)
(* or corrupt (anything but the object save_hash_db writes), is the empty  *)
(* baseline: load_hash_db() returns the empty dict, and a check_integrity()*)
(* in that state does not raise, reports every scanned file as new and     *)
(* nothing as safe, modified or deleted, and saves the snapshot.           *)
(***************************************************************************)
MissingOrCorrupt(file) == ~file.exists \/ file.text.kind # "object"

CheckCall == ret'.op = "check_integrity" /\ nops' = nops + 1

\* what a check of the empty baseline must return and leave saved
FirstRunDone(r, saved) ==
    /\ ~r.raised
    /\ r.hash_db = <<>>
    /\ r.results.safe = <<>>
    /\ r.results.modified = <<>>
    /\ r.results.deleted = <<>>
    /\ Range(r.results.new) = Keys(r.current_files)
    /\ Keys(r.current_files) = Readable
    /\ saved = r.current_files

C12_CorruptBaselineIsEmpty ==
    [][MissingOrCorrupt(dbFile) =>
        /\ (ret'.op = "load_hash_db") =>
               (~LoadsNone(dbFile) /\ ret'.hash_db = <<>>)
        /\ CheckCall =>
               (~ret'.raised /\ FirstRunDone(ret', LoadHashDbFrom(dbFile')))
      ]_vars

(***************************************************************************)
(* C13.  A file whose content cannot be read is left out of the snapshot,  *)
(* and the scan neither stops nor raises: the snapshot records exactly the *)
(* readable files, each with its non-empty digest.  If the unreadable file *)
(* is in the baseline, check_integrity() reports it deleted although it is *)
(* still in the folder, and the baseline it saves no longer holds it.      *)
(***************************************************************************)
Scanned ==
    /\ ret.op \in {"scan_files", "check_integrity", "create_baseline"}
    /\ ~ret.raised

Unreadable == { n \in FileNames : dirExists /\ fs[n].exists /\ ~fs[n].readable }

C13_UnreadableExcluded ==
    /\ Scanned =>
          /\ Keys(ret.current_files) = Readable
          /\ \A i \in 1..Len(ret.current_files) :
                /\ ret.current_files[i].hash # <<>>
                /\ ret.current_files[i].hash =
                       Sha256Hex(fs[ret.current_files[i].name].content)
    /\ Checked =>
          \A n \in Unreadable \cap Keys(ret.hash_db) :
              /\ n \in Range(ret.results.deleted)
              /\ n \notin Range(ret.results.safe) \cup Range(ret.results.modified)
              /\ n \notin Keys(LoadHashDb)

\* a check of two baselined files of which one has become unreadable
C13_Witness ==
    /\ Checked
    /\ \E n \in Unreadable : ret.results.deleted = <<n>>
    /\ Len(ret.results.safe) = 1
    /\ Len(LoadHashDb) = 1

(***************************************************************************)
(* C14.  scan_files() of a SECURE_FOLDER that does not exist returns the   *)
(* empty snapshot and does not raise.  A check_integrity() that runs while *)
(* the folder is missing reports every name of the baseline deleted, none  *)
(* safe, modified or new, and leaves the empty baseline saved.             *)
(***************************************************************************)
C14_MissingFolder ==
    /\ (ret.op = "scan_files" /\ ~dirExists) =>
          /\ ~ret.raised
          /\ ret.current_files = <<>>
    /\ (Checked /\ ~dirExists) =>
          /\ ret.current_files = <<>>
          /\ Range(ret.results.deleted) = Keys(ret.hash_db)
          /\ Len(ret.results.deleted) = Len(ret.hash_db)
          /\ ret.results.safe = <<>>
          /\ ret.results.modified = <<>>
          /\ ret.results.new = <<>>
          /\ dbFile.exists
          /\ LoadHashDb = <<>>

\* a check of a baseline of two files after the folder was removed
C14_Witness ==
    /\ Checked
    /\ ~dirExists
    /\ Len(ret.results.deleted) = 2
    /\ LoadHashDb = <<>>

(***************************************************************************)
(* C15.  No engine operation lets a failure reach its caller: whatever     *)
(* fails (a monitored file, the hash database, the log file, also when the *)
(* log file or the hash database cannot be written), check_integrity,      *)
(* create_baseline, scan_files, load_hash_db, parse_logs and reset_logs    *)
(* return, and reset_logs returns False when it could not empty the log.   *)
(***************************************************************************)
EngineCall == ret.op # "none"

C15_NoFailurePropagates ==
    EngineCall =>
        /\ ~ret.raised
        /\ ret.op = "reset_logs" =>
              (ret.ok <=> lastOp = "reset_logs")

(***************************************************************************)
(* C16.  save_hash_db replaces the hash database atomically: while a save  *)
(* of check_integrity or create_baseline is under way, and after a failure *)
(* in the middle of it, load_hash_db returns the whole baseline of before  *)
(* the call or the whole new one, never an empty or half-written one.      *)
(***************************************************************************)
C16_AtomicSave ==
    /\ run.pc = "dump" =>
          /\ LoadHashDb \in {LoadHashDbFrom(run.db0), run.current_files}
          /\ ret.op = "load_hash_db" =>
                ret.hash_db \in {LoadHashDbFrom(run.db0), run.current_files}
    /\ (ret.op = "killed" /\ ret.at = "dump") =>
          LoadHashDb \in {ret.old, ret.new}

(***************************************************************************)
(* C19.  check_integrity() takes no change into the baseline silently,     *)
(* also when the folder changes while it runs: every name whose digest     *)
(* differs between the baseline before and after the check, or that the    *)
(* check adds to or removes from the baseline, has a WARNING or ALERT      *)
(* entry with its name among the lines this check appended; the check      *)
(* appends all its entries before it overwrites the baseline; and when an  *)
(* append fails the baseline stays what it was.                            *)
(***************************************************************************)
\* the names two baselines differ in
Drift(B0, B1) ==
    { n \in Keys(B0) \cup Keys(B1) :
        \/ n \notin Keys(B0)
        \/ n \notin Keys(B1)
        \/ Lookup(B0, n).hash # Lookup(B1, n).hash }

\* the names that have a WARNING or ALERT entry among the lines after the
\* first `from`
Reported(lines, from) ==
    { FilenameOf(lines[i]) :
        i \in { j \in (from + 1)..Len(lines) :
                 /\ HasFilename(lines[j])
                 /\ LevelOf(lines[j]) \in {"WARNING", "ALERT"} } }

C19_NoSilentAbsorption ==
    [][run.op = "check_integrity" =>
        /\ dbFile' # dbFile =>
              /\ logFile' = logFile
              /\ Drift(LoadHashDbFrom(run.db0), run.current_files)
                    \subseteq Reported(LinesOf(logFile), run.nlines)
        /\ logFile' # logFile => dbFile = run.db0
        /\ (run'.pc = "idle" /\ ret'.op = "check_integrity") =>
              IF ret'.raised
              THEN ret'.at = 37 => (dbFile' = run.db0 /\ logFile' = logFile)
              ELSE /\ LoadHashDbFrom(dbFile') = run.current_files
                   /\ Drift(LoadHashDbFrom(run.db0), LoadHashDbFrom(dbFile'))
                         \subseteq Reported(LinesOf(logFile'), run.nlines)
      ]_vars

\* a check has returned that found a file modified, after the folder was
\* changed while the check ran
C19_Witness ==
    /\ Checked
    /\ run.pc = "idle"
    /\ lastOp \in {"write_file", "delete_file"}
    /\ Len(ret.results.modified) >= 1
    /\ Reported(Lines, 0) # {}

\* a check raised at its first append, the write permission of the log file
\* having been taken away while it ran
C19_WitnessFailedAppend ==
    /\ ret.op = "check_integrity"
    /\ ret.raised
    /\ ret.at = 37
    /\ lastOp = "chmod_log"

(***************************************************************************)
(* C17.  The hash database changes only in check_integrity() and           *)
(* create_baseline(), and then to the saved snapshot: scan_files,          *)
(* load_hash_db, parse_logs, reset_logs and the appends of log_activity    *)
(* leave it as it is; scan_files, load_hash_db and parse_logs leave the    *)
(* log file as it is too.                                                  *)
(***************************************************************************)
C17_Frame ==
    [][/\ dbFile' # dbFile =>
             /\ nops' = nops + 1
             /\ ret'.op \in {"check_integrity", "create_baseline"}
             /\ dbFile' = SaveHashDb(ret'.current_files)
       /\ (ret' # ret /\ ret'.op \in {"scan_files", "load_hash_db", "parse_logs"}) =>
             /\ dbFile' = dbFile
             /\ logFile' = logFile
       /\ ResetStep => dbFile' = dbFile
       /\ (logFile' # logFile /\ ret'.op \notin {"check_integrity", "create_baseline"}) =>
             dbFile' = dbFile
      ]_vars

\* a reset_logs after a baseline of two files, which is still there
C17_Witness ==
    /\ ret.op = "reset_logs"
    /\ ret.after = "create_baseline"
    /\ Len(LoadHashDb) = 2
    /\ Len(Lines) = 1

(***************************************************************************)
(* C18.  A drift is reported by one check only.  A check_integrity() whose *)
(* last preceding change was a check_integrity() that returned (no change  *)
(* of the folder, no other write of the baseline in between) returns safe  *)
(* = all scanned files and modified, new and deleted empty, whatever the   *)
(* first one returned: what the first reported modified or new is safe in  *)
(* the second, what it reported deleted is in none of the second's lists.  *)
(***************************************************************************)
InAnyList(r, n) ==
    n \in Range(r.safe) \cup Range(r.modified) \cup Range(r.new)
             \cup Range(r.deleted)

C18_DriftReportedOnce ==
    [][(CheckStep /\ lastOp = "check_integrity") =>
        /\ ret'.results.modified = <<>>
        /\ ret'.results.new = <<>>
        /\ ret'.results.deleted = <<>>
        /\ Range(ret'.results.safe) = Keys(ret'.current_files)
        /\ Range(ret'.results.safe) = Readable
        /\ Checked =>
              /\ \A n \in Range(ret.results.modified) \cup Range(ret.results.new)
                           \cup Range(ret.results.safe) :
                     n \in Range(ret'.results.safe)
              /\ \A n \in Range(ret.results.deleted) :
                     ~InAnyList(ret'.results, n)
      ]_vars

\* the second of two checks, the first of which reported one file modified
\* and one new
C18_Witness ==
    /\ Checked
    /\ ret.after = "check_integrity"
    /\ Len(ret.results.safe) = 2
    /\ Len(Lines) = 4
    /\ { LevelOf(Lines[1]), LevelOf(Lines[2]) } = {"WARNING", "ALERT"}
    /\ LevelOf(Lines[3]) = "INFO"
    /\ LevelOf(Lines[4]) = "INFO"

(***************************************************************************)
(* C20.  parse_logs() counts every line in at most one level, the first    *)
(* that matches in the order INFO, WARNING, ALERT: info + warning + alert  *)
(* never exceeds total_logs, and equals it for every log that holds only   *)
(* lines written by check_integrity, create_baseline and reset_logs.       *)
(***************************************************************************)
\* a line log_activity wrote
EngineLine(line) ==
    /\ Head(line) = "["
    /\ Contains(line, "]")
    /\ LevelOf(line) \in {"INFO", "WARNING", "ALERT"}

WithToken(lines, with, without) ==
    { i \in 1..Len(lines) :
        /\ Contains(lines[i], with)
        /\ \A x \in without : ~Contains(lines[i], x) }

C20_FirstMatch ==
    ret.op = "parse_logs" =>
        \A lines \in {IF logFile.exists THEN Lines ELSE <<>>} :
            /\ ~ret.raised
            /\ ret.stats.total_logs = Len(lines)
            /\ ret.stats.info = Cardinality(WithToken(lines, "INFO", {}))
            /\ ret.stats.warning =
                   Cardinality(WithToken(lines, "WARNING", {"INFO"}))
            /\ ret.stats.alert =
                   Cardinality(WithToken(lines, "ALERT", {"INFO", "WARNING"}))
            /\ ret.stats.info + ret.stats.warning + ret.stats.alert
                   <= ret.stats.total_logs
            /\ (\A i \in 1..Len(lines) : EngineLine(lines[i])) =>
                   ret.stats.info + ret.stats.warning + ret.stats.alert
                      = ret.stats.total_logs

\* parse_logs of a log with an ALERT entry for the file INFO.txt, counted as
\* INFO and nowhere else, and a line no operation of the engine wrote
C20_Witness ==
    /\ ret.op = "parse_logs"
    /\ logFile.exists
    /\ \E i \in 1..Len(Lines) :
          /\ EngineLine(Lines[i])
          /\ LevelOf(Lines[i]) = "ALERT"
          /\ Contains(Lines[i], "INFO")
    /\ ret.stats.info >= 1
    /\ ret.stats.alert = 0
    /\ ret.stats.info + ret.stats.warning + ret.stats.alert
           < ret.stats.total_logs

=============================================================================
